---- MODULE Spec2Model ----
(***************************************************************************)
(* The ViralSafe backend.  Wallet-signature authentication                 *)
(* (backend/app/routers/auth.py): nonce issuance, signature verification   *)
(* and login, refresh-token rotation, logout and current-user resolution,  *)
(* over the two document collections the handlers use (auth_nonces and     *)
(* users); the application lifecycle and the health endpoints              *)
(* (backend/main.py); vote casting on a post (backend/app/models/post.py). *)
(* In Spec each handler is one atomic action: requests are served one      *)
(* after the other.  In ConcurrentSpec verify-signature, refresh and       *)
(* logout are coroutines that interleave at their store calls.             *)
(***************************************************************************)
EXTENDS Integers, FiniteSets, Sequences, TLC

(* ------------------------------ bounds -------------------------------- *)

\* the clock runs over 0..MaxTime (minutes)
MaxTime == 6
\* at most MaxRequests requests are served in a behaviour
MaxRequests == 3
\* at most MaxCalls verify-signature and refresh requests run concurrently
MaxCalls == 2
\* a recomputed viral score lies within MaxScoreStep of the threshold
MaxScoreStep == 2

(* ------------------------- program constants -------------------------- *)

\* timedelta(minutes=5) of request_nonce
NonceTTL == 5

(* ------------------------------ values -------------------------------- *)

Addresses == {"a1", "a2"}
\* a wallet address string: its letters and whether it has upper-case letters
WalletInputs == [a : Addresses, up : BOOLEAN]
NoWallet == [a |-> "none", up |-> FALSE]
\* str.lower()
Lower(s) == [s EXCEPT !.up = FALSE]

Names == {"u1", "u2"}
UsernameInputs == [a : Names, up : BOOLEAN]

\* a datetime field that is None
NoTime == -1
\* nonces are numbered in the order generate_nonce returns them; the nonce of
\* no record
NoNonce == -1

\* create_auth_message: the text embeds the wallet, the nonce and the timestamp
create_auth_message(wallet_address, nonce, timestamp) ==
    [wallet |-> wallet_address, nonce |-> nonce, timestamp |-> timestamp]

\* A signature: who signed which message; wellformed = FALSE is a string that
\* is no signature at all (recovery raises).
NoMessage == [wallet |-> NoWallet, nonce |-> NoNonce, timestamp |-> NoTime]
Malformed == [wellformed |-> FALSE, signer |-> "none", msg |-> NoMessage]
Sign(key, m) == [wellformed |-> TRUE, signer |-> key, msg |-> m]

\* a recovery that does not bind the signature to the message
RecoverMessage_AnyMessage(message, signature) ==
    [a |-> signature.signer, up |-> TRUE]

\* Account.recover_message(encode_defunct(text=message), signature): the
\* checksummed (mixed-case) address of the signer when the signature was made
\* over this very message, some unrelated address otherwise.
RecoverMessage(message, signature) ==
    IF signature.msg = message
    THEN [a |-> signature.signer, up |-> TRUE]
    ELSE [a |-> "unrelated", up |-> TRUE]

\* verify_signature (auth.py 75-88): any exception of the recovery is False
verify_signature(message, signature, wallet_address) ==
    IF ~signature.wellformed
    THEN FALSE
    ELSE Lower(RecoverMessage(message, signature)) = Lower(wallet_address)

(* ------------------------------ tokens -------------------------------- *)

\* A JWT: its type tag, its subject, the issuance it comes from, whether it
\* carries a valid signature of the service's secret and whether its lifetime
\* has run out.  id 0 is a token that no handler of this model issued.
NoToken ==
    [typ |-> "none", sub |-> NoWallet, id |-> 0, signed |-> FALSE, expired |-> FALSE]
Token(typ, sub, id) ==
    [typ |-> typ, sub |-> sub, id |-> id, signed |-> TRUE, expired |-> FALSE]
\* the token once its lifetime has run out
Expired(token) == [token EXCEPT !.expired = TRUE]
create_access_token(subject, id) == Token("access", subject, id)
create_refresh_token(subject, id) == Token("refresh", subject, id)

VARIABLES
    now,            \* datetime.utcnow(), in minutes
    auth_nonces,    \* the db.auth_nonces collection: a set of documents
    users,          \* the db.users collection: a set of documents
    issued,         \* issued[i]: the subject of the i-th issued token pair
    superseded,     \* the nonce records that a later request-nonce of the
                    \* same wallet overwrote
    consumed,       \* the (wallet, nonce, signature) of the verify-signature
                    \* requests that succeeded, each kept until the next
                    \* request-nonce of its wallet
    last,           \* the last request served and its response
    served,         \* the number of requests served
    generated,      \* the number of nonces generate_nonce has returned
    phase,          \* the lifecycle of the application (main.py lifespan)
    database,       \* the global `database` of main.py
    cache,          \* the global `cache` of main.py
    store_up,       \* whether the document store answers
    cache_up,       \* whether the cache answers
    driver_bool,    \* what bool() of a store handle does in this deployment
    reply,          \* the last HTTP response sent
    post,           \* a document of the posts collection
    vote_response,  \* the last PostVoteResponse returned
    crossings,      \* the number of votes that took the viral score of the
                    \* post from below the threshold to it or above
    flags,          \* the number of responses with viral_threshold_reached
    calls           \* the verify-signature and refresh requests in flight:
                    \* for each, where its coroutine stands and its locals

\* the state of the authentication handlers
authvars ==
    <<now, auth_nonces, users, issued, superseded, consumed, last, served, generated>>

\* the state of the application around them
servicevars == <<phase, database, cache, store_up, cache_up, driver_bool, reply>>

\* the state of the content handlers
contentvars == <<post, vote_response, crossings, flags>>

vars == <<authvars, servicevars, contentvars, calls>>

\* the variables that the handlers of one part of the application leave alone
OutsideAuth == <<servicevars, contentvars, calls>>
OutsideService == <<contentvars, calls>>
OutsideContent == <<auth_nonces, users, issued, superseded, consumed, last,
                    generated, servicevars, calls>>
OutsideCalls == <<servicevars, contentvars>>

LowerWallets == {Lower(w) : w \in WalletInputs}

(* ---------------------------- documents ------------------------------- *)

NoNonceDoc ==
    [wallet_address |-> NoWallet, nonce |-> NoNonce, message |-> NoMessage,
     created_at |-> NoTime, expires_at |-> NoTime]

NoName == [a |-> "none", up |-> FALSE]
\* profile_fields: whether the document carries the fields UserResponse
\* requires (id, role, status, is_verified, stats, balances, ...)
NoUser ==
    [_id |-> 0, wallet_address |-> NoWallet, username |-> NoName,
     display_name |-> "none", last_login |-> NoTime,
     refresh_token |-> NoToken, profile_fields |-> FALSE]

\* collection.find_one(filter): a matching document, or None
FindOne(matching, none) == IF matching = {} THEN none ELSE CHOOSE d \in matching : TRUE

\* insert_one: the store gives the document a fresh _id
NewId == Cardinality(users) + 1

\* UserCreate (user.py 129-147): the validators lower-case the username
NoUserData == [present |-> FALSE, username |-> NoName, display_name |-> "none"]
UserCreate(username, display_name) ==
    [present |-> TRUE, username |-> Lower(username), display_name |-> display_name]

\* UserResponse(**user) (user.py 164-187): validation fails when a required
\* field is missing from the document
UserResponseValid(user) == user.profile_fields

(* ---------------------------- verify_token ---------------------------- *)

\* the token's expiry time lies in the past
TokenLapsed(token) == token.expired

NoPayload == [valid |-> FALSE, sub |-> NoWallet]
\* verify_token(token, token_type): the payload, or None when the signature
\* is bad, the token has expired or the type tag differs
verify_token(token, token_type) ==
    IF token.signed /\ ~TokenLapsed(token) /\ token.typ = token_type
    THEN [valid |-> TRUE, sub |-> token.sub]
    ELSE NoPayload

\* The token lifetimes (30 minutes and 30 days, config.py 20-21) are beyond
\* the clock's range: the tokens that have expired are those of logins made
\* before the first state.

\* A user registered earlier: the document carries every field UserResponse
\* requires, and the refresh token of a login made more than 30 days ago.
SeedUser ==
    [_id |-> 1, wallet_address |-> [a |-> "a1", up |-> FALSE],
     username |-> [a |-> "u1", up |-> FALSE], display_name |-> "d0",
     last_login |-> NoTime,
     refresh_token |-> Expired(create_refresh_token([a |-> "a1", up |-> FALSE], 0)),
     profile_fields |-> TRUE]

\* the expired tokens of that login
EarlierTokens ==
    {Expired(create_access_token(SeedUser.wallet_address, 0)), SeedUser.refresh_token}

IssuedTokens ==
    {Token(typ, issued[i], i) : typ \in {"access", "refresh"}, i \in 1..Len(issued)}
\* live access tokens, validly signed, that no handler of this model issued
ForeignTokens == {Token("access", sub, 0) : sub \in LowerWallets \cup {NoWallet}}
\* an issued token with a broken signature
Forged(t) == [t EXCEPT !.signed = FALSE]
TokenInputs ==
    IssuedTokens \cup ForeignTokens \cup EarlierTokens
        \cup {Forged(t) : t \in IssuedTokens}

Response(op, wallet, outcome, refresh) ==
    [op |-> op, wallet |-> wallet, outcome |-> outcome, refresh_token |-> refresh]

(* --------------------------- request_nonce ---------------------------- *)

\* an upsert that inserts even when the wallet has a record
UpsertNonce_Insert(coll, doc) == coll \cup {doc}

\* update_one({"wallet_address": w}, {"$set": fields}, upsert=True)
UpsertNonce(coll, doc) ==
    LET matching == {d \in coll : d.wallet_address = doc.wallet_address}
    IN  IF matching = {}
        THEN coll \cup {doc}
        ELSE (coll \ {CHOOSE d \in matching : TRUE}) \cup {doc}

\* secrets.token_hex(16) (auth.py 57-59): 128 random bits, a value that was
\* never returned before
generate_nonce == generated + 1

\* request_nonce (auth.py 147-180).  A nonce is issued only while its expiry
\* time lies within the clock's range.
request_nonce(wallet) ==
    LET wallet_address == Lower(wallet)
        nonce == generate_nonce
        message == create_auth_message(wallet_address, nonce, now)
        nonce_doc == [wallet_address |-> wallet_address, nonce |-> nonce,
                      message |-> message, created_at |-> now,
                      expires_at |-> now + NonceTTL]
    IN  /\ now + NonceTTL <= MaxTime
        /\ auth_nonces' = UpsertNonce(auth_nonces, nonce_doc)
        /\ superseded' = superseded \cup (auth_nonces \ auth_nonces')
        /\ consumed' = {r \in consumed : r.wallet_address # wallet_address}
        /\ last' = Response("request_nonce", wallet_address, "ok", NoToken)
        /\ generated' = generated + 1
        /\ UNCHANGED <<now, users, issued>>

(* ------------------------ verify-signature ---------------------------- *)

\* a SignatureRequest (auth.py 32-37)
SignatureRequest(wallet_address, signature, nonce, user_data) ==
    [wallet_address |-> wallet_address, signature |-> signature,
     nonce |-> nonce, user_data |-> user_data]

\* db.auth_nonces.find_one({"wallet_address": wallet_address})
FindNonce(wallet_address) ==
    FindOne({d \in auth_nonces : d.wallet_address = wallet_address}, NoNonceDoc)

\* db.users.find_one({"wallet_address": wallet_address})
FindUser(wallet_address) ==
    FindOne({u \in users : u.wallet_address = wallet_address}, NoUser)

\* a username lookup that never finds the name
FindUsername_Free(username) == NoUser

\* db.users.find_one({"username": username})
FindUsername(username) ==
    FindOne({u \in users : u.username = username}, NoUser)

\* an expiry test that already rejects at the expiry time itself
NonceExpired_AtExpiry(nonce_doc) == now >= nonce_doc.expires_at

\* datetime.utcnow() > nonce_doc["expires_at"]  (auth.py 199)
NonceExpired(nonce_doc) == now > nonce_doc.expires_at

\* nonce_doc["nonce"] != request.nonce  (auth.py 206)
NonceMismatch(nonce_doc, request) == nonce_doc.nonce # request.nonce

\* the checks with the nonce compared before the expiry is looked at
VerifyChecks_MismatchFirst(request) ==
    LET wallet_address == Lower(request.wallet_address)
        nonce_doc == FindNonce(wallet_address)
        user == FindUser(wallet_address)
    IN  IF nonce_doc = NoNonceDoc THEN "nonce_not_found"
        ELSE IF NonceMismatch(nonce_doc, request) THEN "nonce_mismatch"
        ELSE IF NonceExpired(nonce_doc) THEN "nonce_expired"
        ELSE IF ~verify_signature(nonce_doc.message, request.signature, wallet_address)
             THEN "invalid_signature"
        ELSE IF user # NoUser THEN "pass"
        ELSE IF ~request.user_data.present THEN "missing_registration_data"
        ELSE IF FindUsername(Lower(request.user_data.username)) # NoUser
             THEN "username_taken"
        ELSE "pass"

\* The checks of verify_signature_and_login (auth.py 186-237) in the order
\* the code makes them: the first one that fails, or "pass".
VerifyChecks(request) ==
    LET wallet_address == Lower(request.wallet_address)
        nonce_doc == FindNonce(wallet_address)
        user == FindUser(wallet_address)
    IN  IF nonce_doc = NoNonceDoc THEN "nonce_not_found"
        ELSE IF NonceExpired(nonce_doc) THEN "nonce_expired"
        ELSE IF NonceMismatch(nonce_doc, request) THEN "nonce_mismatch"
        ELSE IF ~verify_signature(nonce_doc.message, request.signature, wallet_address)
             THEN "invalid_signature"
        ELSE IF user # NoUser THEN "pass"
        ELSE IF ~request.user_data.present THEN "missing_registration_data"
        ELSE IF FindUsername(Lower(request.user_data.username)) # NoUser
             THEN "username_taken"
        ELSE "pass"

\* update_one({"_id": id}, {"$set": {"last_login": t}})
SetLastLogin(coll, id, t) ==
    {IF u._id = id THEN [u EXCEPT !.last_login = t] ELSE u : u \in coll}

\* a store of the refresh token that keeps a token already stored
SetRefreshToken_KeepOld(coll, id, token) ==
    {IF u._id = id /\ u.refresh_token = NoToken
     THEN [u EXCEPT !.refresh_token = token]
     ELSE u : u \in coll}

\* update_one({"_id": id}, {"$set": {"refresh_token": token}})
SetRefreshToken(coll, id, token) ==
    {IF u._id = id THEN [u EXCEPT !.refresh_token = token] ELSE u : u \in coll}

\* a logout that leaves the stored token in place
UnsetRefreshToken_Keep(coll, id) == coll

\* update_one({"_id": id}, {"$unset": {"refresh_token": ""}})
UnsetRefreshToken(coll, id) ==
    {IF u._id = id THEN [u EXCEPT !.refresh_token = NoToken] ELSE u : u \in coll}

\* a clean-up that deletes nothing
DeleteNonce_Keep(coll, wallet_address) == coll

\* db.auth_nonces.delete_one({"wallet_address": wallet_address})
DeleteNonce(coll, wallet_address) ==
    LET matching == {d \in coll : d.wallet_address = wallet_address}
    IN  IF matching = {} THEN coll ELSE coll \ {CHOOSE d \in matching : TRUE}

\* new_user.dict(by_alias=True, exclude_unset=True) (auth.py 240-250): only
\* the fields the handler set are stored; role, status, stats, balances and
\* the other defaulted fields are not.
NewUserDocument(wallet_address, user_data) ==
    [_id |-> NewId, wallet_address |-> wallet_address,
     username |-> Lower(user_data.username),
     display_name |-> user_data.display_name, last_login |-> now,
     refresh_token |-> NoToken, profile_fields |-> FALSE]

\* the document the handler holds in `user` after auth.py 219-258
LoginUser(request) ==
    LET wallet_address == Lower(request.wallet_address)
        user == FindUser(wallet_address)
    IN  IF user = NoUser
        THEN NewUserDocument(wallet_address, request.user_data)
        ELSE user

\* a login that writes the registration data of the request over the
\* profile of an existing user
LoginUsers_UpdateProfile(request, refresh_token) ==
    LET wallet_address == Lower(request.wallet_address)
        user == FindUser(wallet_address)
        logged == IF user = NoUser
                  THEN users \cup {NewUserDocument(wallet_address, request.user_data)}
                  ELSE SetLastLogin(users, user._id, now)
        stored == SetRefreshToken(logged, LoginUser(request)._id, refresh_token)
    IN  IF user # NoUser /\ request.user_data.present
        THEN {IF u._id = user._id
              THEN [u EXCEPT !.display_name = request.user_data.display_name]
              ELSE u : u \in stored}
        ELSE stored

\* db.users after auth.py 219-271 of a request that passed the checks
LoginUsers(request, refresh_token) ==
    LET wallet_address == Lower(request.wallet_address)
        user == FindUser(wallet_address)
        logged == IF user = NoUser
                  THEN users \cup {NewUserDocument(wallet_address, request.user_data)}
                  ELSE SetLastLogin(users, user._id, now)
    IN  SetRefreshToken(logged, LoginUser(request)._id, refresh_token)

\* the response of a request that passed the checks (auth.py 273-289):
\* UserResponse(**user) raises on a document without the required fields,
\* and the handler turns that into the 500 response
LoginOutcome(user) == IF UserResponseValid(user) THEN "ok" ELSE "internal_error"

\* a handler that deletes the nonce right after the signature check, before
\* it looks at the registration data
VerifyResult_DeleteEarly(request) ==
    LET checks == VerifyChecks(request)
        wallet_address == Lower(request.wallet_address)
    IN  IF checks = "pass"
        THEN [outcome |-> LoginOutcome(LoginUser(request)),
              users |-> LoginUsers(request,
                            create_refresh_token(wallet_address, Len(issued) + 1)),
              auth_nonces |-> DeleteNonce(auth_nonces, wallet_address),
              issued |-> Append(issued, wallet_address)]
        ELSE [outcome |-> checks, users |-> users,
              auth_nonces |-> IF checks \in {"missing_registration_data",
                                             "username_taken"}
                              THEN DeleteNonce(auth_nonces, wallet_address)
                              ELSE auth_nonces,
              issued |-> issued]

\* What the call leaves behind: the status the caller receives, and db.users,
\* db.auth_nonces and the issued tokens after it.  A request that fails a
\* check raises before the handler has written anything; one that passes has
\* written the user, deleted the nonce and created the tokens (auth.py
\* 239-271) before the response is built.
VerifyResult(request) ==
    LET checks == VerifyChecks(request)
        wallet_address == Lower(request.wallet_address)
    IN  IF checks = "pass"
        THEN [outcome |-> LoginOutcome(LoginUser(request)),
              users |-> LoginUsers(request,
                            create_refresh_token(wallet_address, Len(issued) + 1)),
              auth_nonces |-> DeleteNonce(auth_nonces, wallet_address),
              issued |-> Append(issued, wallet_address)]
        ELSE [outcome |-> checks, users |-> users,
              auth_nonces |-> auth_nonces, issued |-> issued]

\* verify_signature_and_login (auth.py 182-289)
verify_signature_and_login(request) ==
    LET wallet_address == Lower(request.wallet_address)
        refresh_token == create_refresh_token(wallet_address, Len(issued) + 1)
        result == VerifyResult(request)
    IN  /\ users' = result.users
        /\ auth_nonces' = result.auth_nonces
        /\ issued' = result.issued
        /\ consumed' = IF result.outcome = "ok"
                       THEN consumed \cup {[wallet_address |-> wallet_address,
                                            nonce |-> request.nonce,
                                            signature |-> request.signature]}
                       ELSE consumed
        /\ last' = Response("verify_signature", wallet_address, result.outcome,
                            IF result.outcome = "ok" THEN refresh_token ELSE NoToken)
        /\ UNCHANGED <<now, superseded, generated>>

(* ------------------------------ refresh ------------------------------- *)

\* a lookup by wallet alone, without the filter on the stored token
RefreshUser_ByWallet(token) ==
    LET payload == verify_token(token, "refresh")
    IN  IF ~payload.valid
        THEN NoUser
        ELSE FindOne({u \in users : u.wallet_address = payload.sub}, NoUser)

\* db.users.find_one({"wallet_address": sub, "refresh_token": token})
\* (auth.py 307-310), reached only with a payload
RefreshUser(token) ==
    LET payload == verify_token(token, "refresh")
    IN  IF ~payload.valid
        THEN NoUser
        ELSE FindOne({u \in users : /\ u.wallet_address = payload.sub
                                    /\ u.refresh_token = token}, NoUser)

\* the status the caller of refresh receives (auth.py 294-343)
RefreshOutcome(token) ==
    IF ~verify_token(token, "refresh").valid THEN "invalid_refresh_token"
    ELSE IF RefreshUser(token) = NoUser THEN "invalid_refresh_token"
    ELSE LoginOutcome(RefreshUser(token))

\* db.users and the issued tokens after the call
RefreshUsers(token) ==
    IF RefreshUser(token) = NoUser
    THEN users
    ELSE SetRefreshToken(users, RefreshUser(token)._id,
             create_refresh_token(verify_token(token, "refresh").sub, Len(issued) + 1))

RefreshIssued(token) ==
    IF RefreshUser(token) = NoUser
    THEN issued
    ELSE Append(issued, verify_token(token, "refresh").sub)

\* refresh_token (auth.py 291-343)
refresh_token(token) ==
    LET wallet_address == verify_token(token, "refresh").sub
        new_refresh_token == create_refresh_token(wallet_address, Len(issued) + 1)
        outcome == RefreshOutcome(token)
    IN  /\ users' = RefreshUsers(token)
        /\ issued' = RefreshIssued(token)
        /\ last' = Response("refresh", token.sub, outcome,
                            IF outcome = "ok" THEN new_refresh_token ELSE NoToken)
        /\ UNCHANGED <<now, auth_nonces, superseded, consumed, generated>>

(* ------------------------- get_current_user --------------------------- *)

\* what the try block of get_current_user raises (auth.py 93-126): each of
\* its three failures is an HTTPException(401)
CurrentUserRaises(token) ==
    LET payload == verify_token(token, "access")
    IN  IF ~payload.valid THEN "HTTPException"
        ELSE IF payload.sub = NoWallet THEN "HTTPException"
        ELSE IF FindUser(Lower(payload.sub)) = NoUser THEN "HTTPException"
        ELSE "none"

\* the except clauses of get_current_user (auth.py 128-144): the two jwt
\* errors become 401; there is no clause for HTTPException, which is an
\* Exception and so becomes the 500 of the last clause
CurrentUserExcept(raised) ==
    IF raised \in {"ExpiredSignatureError", "InvalidTokenError"}
    THEN "unauthenticated"
    ELSE "internal_error"

\* the outcome of get_current_user
CurrentUserOutcome(token) ==
    IF CurrentUserRaises(token) = "none"
    THEN "ok"
    ELSE CurrentUserExcept(CurrentUserRaises(token))

\* get_current_user (auth.py 90-144) as the dependency of a protected route
get_current_user(token) ==
    LET user == FindUser(Lower(token.sub))
    IN  /\ users' = IF CurrentUserOutcome(token) = "ok"
                    THEN SetLastLogin(users, user._id, now)
                    ELSE users
        /\ last' = Response("get_current_user", token.sub, CurrentUserOutcome(token), NoToken)
        /\ UNCHANGED <<now, auth_nonces, issued, superseded, consumed, generated>>

(* ------------------------------ logout -------------------------------- *)

\* logout (auth.py 345-363) behind its dependency get_current_user
logout(token) ==
    LET current_user == FindUser(Lower(token.sub))
    IN  /\ users' = IF CurrentUserOutcome(token) = "ok"
                    THEN UnsetRefreshToken(
                             SetLastLogin(users, current_user._id, now),
                             current_user._id)
                    ELSE users
        /\ last' = Response("logout", token.sub, CurrentUserOutcome(token), NoToken)
        /\ UNCHANGED <<now, auth_nonces, issued, superseded, consumed, generated>>

(* --------------------------- environment ------------------------------ *)

\* time passes between requests
Tick ==
    /\ now < MaxTime
    /\ served < MaxRequests
    /\ now' = now + 1
    /\ UNCHANGED <<auth_nonces, users, issued, superseded, consumed, last,
                   served, generated>>

(* ------------------------ concurrent requests ------------------------- *)

\* The handlers are coroutines of one event loop: a request runs without
\* interruption from one `await` of a store call to the next, and the other
\* requests run while it waits.  Each step below is one store call together
\* with the code that follows it up to the next store call.

Slots == 1..MaxCalls

NoRequest == SignatureRequest(NoWallet, Malformed, NoNonce, NoUserData)

\* the coroutine of no request
NoCall ==
    [op |-> "none", pc |-> "idle", request |-> NoRequest, token |-> NoToken,
     nonce_doc |-> NoNonceDoc, user |-> NoUser, refresh_token |-> NoToken,
     outcome |-> "none"]

\* the coroutine returns or raises: the response goes out
Return(i, outcome) ==
    /\ calls' = [calls EXCEPT ![i].pc = "done", ![i].outcome = outcome]
    /\ last' = Response(calls[i].op,
                        IF calls[i].op \in {"refresh", "logout"} THEN calls[i].token.sub
                        ELSE Lower(calls[i].request.wallet_address),
                        outcome,
                        IF outcome = "ok" THEN calls[i].refresh_token ELSE NoToken)

\* verify_signature_and_login is called (auth.py 183-186)
begin_verify(i, request) ==
    /\ calls[i].pc = "idle"
    /\ calls' = [calls EXCEPT ![i] = [NoCall EXCEPT !.op = "verify_signature",
                                                    !.pc = "find_nonce",
                                                    !.request = request]]
    /\ UNCHANGED <<now, auth_nonces, users, issued, superseded, consumed, last,
                   generated>>

\* auth.py 190-217: the nonce record is read and checked
verify_find_nonce(i) ==
    LET request == calls[i].request
        wallet_address == Lower(request.wallet_address)
        nonce_doc == FindNonce(wallet_address)
    IN  /\ calls[i].pc = "find_nonce"
        /\ IF nonce_doc = NoNonceDoc THEN Return(i, "nonce_not_found")
           ELSE IF NonceExpired(nonce_doc) THEN Return(i, "nonce_expired")
           ELSE IF NonceMismatch(nonce_doc, request) THEN Return(i, "nonce_mismatch")
           ELSE IF ~verify_signature(nonce_doc.message, request.signature,
                                     wallet_address)
                THEN Return(i, "invalid_signature")
           ELSE /\ calls' = [calls EXCEPT ![i].pc = "find_user",
                                          ![i].nonce_doc = nonce_doc]
                /\ UNCHANGED last
        /\ UNCHANGED <<now, auth_nonces, users, issued, superseded, consumed,
                       generated>>

\* auth.py 220-229: the user of the wallet is read
verify_find_user(i) ==
    LET request == calls[i].request
        user == FindUser(Lower(request.wallet_address))
    IN  /\ calls[i].pc = "find_user"
        /\ IF user # NoUser
           THEN /\ calls' = [calls EXCEPT ![i].pc = "update_last_login",
                                          ![i].user = user]
                /\ UNCHANGED last
           ELSE IF ~request.user_data.present
                THEN Return(i, "missing_registration_data")
           ELSE /\ calls' = [calls EXCEPT ![i].pc = "find_username"]
                /\ UNCHANGED last
        /\ UNCHANGED <<now, auth_nonces, users, issued, superseded, consumed,
                       generated>>

\* auth.py 232-248: the username is looked up
verify_find_username(i) ==
    LET request == calls[i].request
    IN  /\ calls[i].pc = "find_username"
        /\ IF FindUsername(Lower(request.user_data.username)) # NoUser
           THEN Return(i, "username_taken")
           ELSE /\ calls' = [calls EXCEPT ![i].pc = "insert_user"]
                /\ UNCHANGED last
        /\ UNCHANGED <<now, auth_nonces, users, issued, superseded, consumed,
                       generated>>

\* auth.py 250: insert_one
verify_insert_user(i) ==
    LET request == calls[i].request
        new_user == NewUserDocument(Lower(request.wallet_address), request.user_data)
    IN  /\ calls[i].pc = "insert_user"
        /\ users' = users \cup {new_user}
        /\ calls' = [calls EXCEPT ![i].pc = "find_inserted", ![i].user = new_user]
        /\ UNCHANGED <<now, auth_nonces, issued, superseded, consumed, last,
                       generated>>

\* auth.py 251: the inserted document is read back
verify_find_inserted(i) ==
    /\ calls[i].pc = "find_inserted"
    /\ calls' = [calls EXCEPT
                    ![i].pc = "delete_nonce",
                    ![i].user = FindOne({u \in users : u._id = calls[i].user._id},
                                        NoUser)]
    /\ UNCHANGED <<now, auth_nonces, users, issued, superseded, consumed, last,
                   generated>>

\* auth.py 255-258: last_login of the existing user
verify_update_last_login(i) ==
    /\ calls[i].pc = "update_last_login"
    /\ users' = SetLastLogin(users, calls[i].user._id, now)
    /\ calls' = [calls EXCEPT ![i].pc = "delete_nonce"]
    /\ UNCHANGED <<now, auth_nonces, issued, superseded, consumed, last, generated>>

\* auth.py 261-265: the nonce record is deleted and the tokens are created
verify_delete_nonce(i) ==
    LET wallet_address == Lower(calls[i].request.wallet_address)
    IN  /\ calls[i].pc = "delete_nonce"
        /\ auth_nonces' = DeleteNonce(auth_nonces, wallet_address)
        /\ issued' = Append(issued, wallet_address)
        /\ calls' = [calls EXCEPT
                        ![i].pc = "store_refresh_token",
                        ![i].refresh_token =
                            create_refresh_token(wallet_address, Len(issued) + 1)]
        /\ UNCHANGED <<now, users, superseded, consumed, last, generated>>

\* auth.py 268-289: the refresh token is stored and the response built
verify_store_refresh_token(i) ==
    LET request == calls[i].request
        outcome == LoginOutcome(calls[i].user)
    IN  /\ calls[i].pc = "store_refresh_token"
        /\ users' = SetRefreshToken(users, calls[i].user._id, calls[i].refresh_token)
        /\ Return(i, outcome)
        /\ consumed' = IF outcome = "ok"
                       THEN consumed \cup {[wallet_address |->
                                                Lower(request.wallet_address),
                                            nonce |-> request.nonce,
                                            signature |-> request.signature]}
                       ELSE consumed
        /\ UNCHANGED <<now, auth_nonces, issued, superseded, generated>>

\* refresh_token is called (auth.py 292-303): verify_token needs no store
begin_refresh(i, token) ==
    /\ calls[i].pc = "idle"
    /\ IF ~verify_token(token, "refresh").valid
       THEN /\ calls' = [calls EXCEPT ![i] = [NoCall EXCEPT !.op = "refresh",
                                                           !.pc = "done",
                                                           !.token = token,
                                                           !.outcome =
                                                               "invalid_refresh_token"]]
            /\ last' = Response("refresh", token.sub, "invalid_refresh_token", NoToken)
       ELSE /\ calls' = [calls EXCEPT ![i] = [NoCall EXCEPT !.op = "refresh",
                                                           !.pc = "find_token_user",
                                                           !.token = token]]
            /\ UNCHANGED last
    /\ UNCHANGED <<now, auth_nonces, users, issued, superseded, consumed, generated>>

\* auth.py 307-320: the user that holds the token is read, the new tokens
\* are created
refresh_find_user(i) ==
    LET token == calls[i].token
        user == RefreshUser(token)
    IN  /\ calls[i].pc = "find_token_user"
        /\ IF user = NoUser
           THEN /\ Return(i, "invalid_refresh_token")
                /\ UNCHANGED issued
           ELSE /\ issued' = Append(issued, token.sub)
                /\ calls' = [calls EXCEPT
                                ![i].pc = "update_refresh_token",
                                ![i].user = user,
                                ![i].refresh_token =
                                    create_refresh_token(token.sub, Len(issued) + 1)]
                /\ UNCHANGED last
        /\ UNCHANGED <<now, auth_nonces, users, superseded, consumed, generated>>

\* auth.py 323-343: the new token is stored and the response built
refresh_update(i) ==
    /\ calls[i].pc = "update_refresh_token"
    /\ users' = SetRefreshToken(users, calls[i].user._id, calls[i].refresh_token)
    /\ Return(i, LoginOutcome(calls[i].user))
    /\ UNCHANGED <<now, auth_nonces, issued, superseded, consumed, generated>>

\* logout is called: its dependency get_current_user runs first, and
\* verify_token and the payload checks need no store (auth.py 93-108); each
\* failure is an HTTPException that the last except clause turns into a 500
begin_logout(i, token) ==
    LET payload == verify_token(token, "access")
        raised == IF ~payload.valid \/ payload.sub = NoWallet
                  THEN "HTTPException" ELSE "none"
    IN  /\ calls[i].pc = "idle"
        /\ IF raised # "none"
           THEN /\ calls' = [calls EXCEPT ![i] = [NoCall EXCEPT !.op = "logout",
                                                               !.pc = "done",
                                                               !.token = token,
                                                               !.outcome =
                                                                   CurrentUserExcept(raised)]]
                /\ last' = Response("logout", token.sub, CurrentUserExcept(raised),
                                    NoToken)
           ELSE /\ calls' = [calls EXCEPT ![i] = [NoCall EXCEPT !.op = "logout",
                                                               !.pc = "find_current_user",
                                                               !.token = token]]
                /\ UNCHANGED last
        /\ UNCHANGED <<now, auth_nonces, users, issued, superseded, consumed, generated>>

\* auth.py 111-118: get_current_user reads the user of the token's wallet
logout_find_user(i) ==
    LET user == FindUser(Lower(calls[i].token.sub))
    IN  /\ calls[i].pc = "find_current_user"
        /\ IF user = NoUser
           THEN Return(i, CurrentUserExcept("HTTPException"))
           ELSE /\ calls' = [calls EXCEPT ![i].pc = "update_current_login",
                                          ![i].user = user]
                /\ UNCHANGED last
        /\ UNCHANGED <<now, auth_nonces, users, issued, superseded, consumed,
                       generated>>

\* auth.py 121-126: get_current_user sets last_login and returns the user
\* it read
logout_update_last_login(i) ==
    /\ calls[i].pc = "update_current_login"
    /\ users' = SetLastLogin(users, calls[i].user._id, now)
    /\ calls' = [calls EXCEPT ![i].pc = "unset_refresh_token"]
    /\ UNCHANGED <<now, auth_nonces, issued, superseded, consumed, last, generated>>

\* auth.py 349-357: the refresh token of the current user is removed and
\* the response built
logout_unset(i) ==
    /\ calls[i].pc = "unset_refresh_token"
    /\ users' = UnsetRefreshToken(users, calls[i].user._id)
    /\ Return(i, "ok")
    /\ UNCHANGED <<now, auth_nonces, issued, superseded, consumed, generated>>

(* ----------------------- application lifecycle ------------------------ *)

\* the value None of the globals `database` and `cache` (main.py 34-35)
None == "None"
\* the handle objects that lifespan assigns to them (main.py 57, 60)
Handle == "handle"

\* an exception: its class and the text str(e) gives
Exception(type, text) == [type |-> type, text |-> text]
NoText == "none"
NoException == Exception("none", NoText)
\* what a call to a store or cache that does not answer raises
StoreError == Exception("ServerSelectionTimeoutError", "store address and timeout")
CacheError == Exception("ConnectionError", "cache address and errno")
\* what bool() of a store handle raises where the driver refuses truth tests
BoolError == Exception("NotImplementedError", "compare with None instead")
\* what psutil.virtual_memory() raises where the platform refuses the reading
MemoryReadError == Exception("OSError", "path of the memory statistics")
\* what UserResponse(**user) raises on a document without a required field
ValidationError == Exception("ValidationError", "names of the missing fields")

\* a startup that leaves the handles assigned when a ping fails
StartupHandles_KeepAssigned(raised) == [database |-> Handle, cache |-> Handle]

\* lifespan, startup part (main.py 54-70): both globals are assigned before
\* the pings; any exception resets both to None
StartupHandles(raised) ==
    IF raised = NoException
    THEN [database |-> Handle, cache |-> Handle]
    ELSE [database |-> None, cache |-> None]

\* what the try block of the startup raises (main.py 55-65): the store is
\* pinged first, then the cache
StartupRaises ==
    IF ~store_up THEN StoreError
    ELSE IF ~cache_up THEN CacheError
    ELSE NoException

\* lifespan up to its yield (main.py 49-72): the except clause catches every
\* Exception, so the application starts serving in every case
lifespan_startup ==
    /\ phase = "starting"
    /\ database' = StartupHandles(StartupRaises).database
    /\ cache' = StartupHandles(StartupRaises).cache
    /\ phase' = "serving"
    /\ UNCHANGED <<store_up, cache_up, driver_bool, reply>>

\* `if handle:` on one of the globals: None is false, a cache client is an
\* ordinary object and true, a store handle is true or raises
Truth(handle, kind) ==
    IF handle = None THEN "false"
    ELSE IF kind = "store" /\ driver_bool = "raises" THEN "raises"
    ELSE "true"

\* what the try block of the cleanup raises (main.py 75-79)
CleanupRaises ==
    IF Truth(database, "store") = "raises" THEN BoolError ELSE NoException

\* the except clause of the cleanup (main.py 80-81) logs every Exception
CleanupExcept(raised) == "stopped"

\* lifespan after its yield (main.py 74-81); the globals keep their values
lifespan_shutdown ==
    /\ phase = "serving"
    /\ phase' = CleanupExcept(CleanupRaises)
    /\ UNCHANGED <<database, cache, store_up, cache_up, driver_bool, reply>>

\* check_db_health (main.py 143-151): the bare except turns every failure,
\* of the truth test or of the ping, into "unhealthy"
check_db_health ==
    IF Truth(database, "store") = "raises" THEN "unhealthy"
    ELSE IF Truth(database, "store") = "false" THEN "not_configured"
    ELSE IF store_up THEN "healthy"
    ELSE "unhealthy"

\* check_redis_health (main.py 153-161)
check_redis_health ==
    IF Truth(cache, "cache") = "raises" THEN "unhealthy"
    ELSE IF Truth(cache, "cache") = "false" THEN "not_configured"
    ELSE IF cache_up THEN "healthy"
    ELSE "unhealthy"

\* An HTTP response: the endpoint, the status code, the fields of the body
\* (a field the body does not have is NoText) and, beside it, the text of
\* the unexpected exception that arose inside the handler, if one did.
HttpResponse(endpoint, code, body, raised) ==
    [endpoint |-> endpoint, code |-> code, body |-> body, raised |-> raised]
Body(status, detail, error, db, redis) ==
    [status |-> status, detail |-> detail, error |-> error,
     database |-> db, cache |-> redis]
NoReply == HttpResponse("none", 0, Body(NoText, NoText, NoText, NoText, NoText), NoText)

\* health_check (main.py 164-175)
health_check ==
    /\ phase = "serving"
    /\ reply' = HttpResponse("health", 200,
                    Body("healthy", NoText, NoText, check_db_health, check_redis_health),
                    NoText)
    /\ UNCHANGED <<phase, database, cache, store_up, cache_up, driver_bool>>

\* detailed_health (main.py 178-200): when psutil.virtual_memory() raises,
\* the except clause returns, as an ordinary response, a body with the
\* status "partial" and str(e)
detailed_health(raised) ==
    /\ phase = "serving"
    /\ reply' = IF raised = NoException
                THEN HttpResponse("health_detailed", 200,
                         Body("healthy", NoText, NoText,
                              check_db_health, check_redis_health),
                         NoText)
                ELSE HttpResponse("health_detailed", 200,
                         Body("partial", NoText, raised.text, NoText, NoText),
                         raised.text)
    /\ UNCHANGED <<phase, database, cache, store_up, cache_up, driver_bool>>

\* the store or the cache stops or starts answering
StoreChange ==
    /\ store_up' = ~store_up
    /\ UNCHANGED <<phase, database, cache, cache_up, driver_bool, reply>>
CacheChange ==
    /\ cache_up' = ~cache_up
    /\ UNCHANGED <<phase, database, cache, store_up, driver_bool, reply>>

(* ------------------- the handlers behind the HTTP surface ------------- *)

\* the status code of each HTTPException the handlers raise (auth.py)
StatusCode(outcome) ==
    CASE outcome = "ok" -> 200
      [] outcome \in {"nonce_not_found", "nonce_expired", "nonce_mismatch",
                      "missing_registration_data"} -> 400
      [] outcome \in {"invalid_signature", "invalid_refresh_token",
                      "unauthenticated"} -> 401
      [] outcome = "username_taken" -> 409
      [] OTHER -> 500

\* the detail of the 500 that each handler's `except Exception` raises
\* (auth.py 141-144, 177-180, 286-289, 340-343, 360-363)
InternalDetail(op) ==
    CASE op = "request_nonce" -> "Failed to generate nonce"
      [] op = "verify_signature" -> "Authentication failed"
      [] op = "refresh" -> "Token refresh failed"
      [] op = "logout" -> "Logout failed"
      [] OTHER -> "Authentication error"

\* the response of an auth handler: an error response carries the detail of
\* its HTTPException and nothing else
AuthResponse(op, outcome, raised) ==
    HttpResponse(op, StatusCode(outcome),
        Body(NoText,
             IF outcome = "ok" THEN NoText
             ELSE IF StatusCode(outcome) = 500 THEN InternalDetail(op)
             ELSE outcome,
             NoText, NoText, NoText),
        raised.text)

\* a handler whose first store call raises: nothing is written, and the
\* `except Exception` clause answers
StoreFailure(op, wallet) ==
    /\ last' = Response(op, wallet, "internal_error", NoToken)
    /\ reply' = AuthResponse(op, "internal_error", StoreError)
    /\ UNCHANGED <<now, auth_nonces, users, issued, superseded, consumed, generated>>

\* POST /auth/request-nonce
post_request_nonce(wallet) ==
    IF store_up
    THEN /\ request_nonce(wallet)
         /\ reply' = AuthResponse("request_nonce", "ok", NoException)
    ELSE StoreFailure("request_nonce", Lower(wallet))

\* POST /auth/verify-signature: the 500 of a request that passed the checks
\* comes from the ValidationError of UserResponse(**user)
post_verify_signature(request) ==
    IF store_up
    THEN /\ verify_signature_and_login(request)
         /\ reply' = AuthResponse("verify_signature", VerifyResult(request).outcome,
                         IF VerifyResult(request).outcome = "internal_error"
                         THEN ValidationError ELSE NoException)
    ELSE StoreFailure("verify_signature", Lower(request.wallet_address))

\* POST /auth/refresh: verify_token comes before the first store call
post_refresh(token) ==
    IF store_up \/ ~verify_token(token, "refresh").valid
    THEN /\ refresh_token(token)
         /\ reply' = AuthResponse("refresh", RefreshOutcome(token),
                         IF RefreshOutcome(token) = "internal_error"
                         THEN ValidationError ELSE NoException)
    ELSE StoreFailure("refresh", token.sub)

\* the token fails get_current_user before its store call (auth.py 94-109)
RaisesBeforeStore(token) ==
    \/ ~verify_token(token, "access").valid
    \/ verify_token(token, "access").sub = NoWallet

\* a protected route whose dependency get_current_user meets a store that
\* does not answer
CurrentUserFailure(op, token) ==
    /\ last' = Response(op, token.sub, "internal_error", NoToken)
    /\ reply' = AuthResponse("get_current_user", "internal_error", StoreError)
    /\ UNCHANGED <<now, auth_nonces, users, issued, superseded, consumed, generated>>

\* GET /auth/me (auth.py 365-368) behind get_current_user; the 500 that
\* get_current_user makes of its own HTTPException comes from no unexpected
\* exception
get_me(token) ==
    IF store_up \/ RaisesBeforeStore(token)
    THEN /\ get_current_user(token)
         /\ reply' = AuthResponse("get_current_user", CurrentUserOutcome(token),
                         NoException)
    ELSE CurrentUserFailure("get_current_user", token)

\* POST /auth/logout behind get_current_user
post_logout(token) ==
    IF store_up \/ RaisesBeforeStore(token)
    THEN /\ logout(token)
         /\ reply' = IF CurrentUserOutcome(token) = "ok"
                     THEN AuthResponse("logout", "ok", NoException)
                     ELSE AuthResponse("get_current_user",
                              CurrentUserOutcome(token), NoException)
    ELSE CurrentUserFailure("logout", token)

(* --------------------------- vote casting ----------------------------- *)

\* settings.viral_threshold (config.py 65)
viral_threshold == 1000

\* VoteType (post.py 28-32)
VoteTypes == {"up", "down", "viral"}

\* PostMetrics (post.py 47-59): the vote counts and the viral score
PostMetrics(up_votes, down_votes, viral_votes, total_votes, viral_score) ==
    [up_votes |-> up_votes, down_votes |-> down_votes, viral_votes |-> viral_votes,
     total_votes |-> total_votes, viral_score |-> viral_score]

\* PostInDB (post.py 101-128): the fields that vote casting reads and writes
PostInDB(status, metrics, viral_at) ==
    [status |-> status, metrics |-> metrics, viral_at |-> viral_at]
NoPost == PostInDB("none", PostMetrics(0, 0, 0, 0, 0), NoTime)

\* PostVoteResponse (post.py 227-235)
PostVoteResponse(new_metrics, tokens_spent, viral_threshold_reached) ==
    [success |-> TRUE, new_metrics |-> new_metrics, tokens_spent |-> tokens_spent,
     viral_threshold_reached |-> viral_threshold_reached,
     nft_auto_minted |-> viral_threshold_reached]
NoVoteResponse ==
    [success |-> FALSE, new_metrics |-> PostMetrics(0, 0, 0, 0, 0),
     tokens_spent |-> "none", viral_threshold_reached |-> FALSE,
     nft_auto_minted |-> FALSE]

\* the tokens a vote costs: a viral vote costs more than an up or down vote
VoteCost(vote_type) == IF vote_type = "viral" THEN "more" ELSE "less"

\* a count that leaves viral votes out of the total
CountVote_UpDownTotal(metrics, vote_type) ==
    CASE vote_type = "up" ->
             [metrics EXCEPT !.up_votes = @ + 1, !.total_votes = @ + 1]
      [] vote_type = "down" ->
             [metrics EXCEPT !.down_votes = @ + 1, !.total_votes = @ + 1]
      [] OTHER -> [metrics EXCEPT !.viral_votes = @ + 1]

\* the vote counts after a vote of this type
CountVote(metrics, vote_type) ==
    CASE vote_type = "up" ->
             [metrics EXCEPT !.up_votes = @ + 1, !.total_votes = @ + 1]
      [] vote_type = "down" ->
             [metrics EXCEPT !.down_votes = @ + 1, !.total_votes = @ + 1]
      [] OTHER -> [metrics EXCEPT !.viral_votes = @ + 1, !.total_votes = @ + 1]

\* a threshold test that looks at the score alone
ThresholdCrossed_AnyCrossing(p, viral_score) ==
    p.metrics.viral_score < viral_threshold /\ viral_score >= viral_threshold

\* the viral score has just crossed the threshold, for the first time
ThresholdCrossed(p, viral_score) ==
    /\ p.status # "viral"
    /\ p.metrics.viral_score < viral_threshold
    /\ viral_score >= viral_threshold

\* Vote casting: the vote is counted, the viral score recomputed and the
\* threshold checked.  The score is a function of the vote mix and of the
\* engagement, which the votes do not determine: the recomputed score is an
\* input here.
cast_vote(vote_type, viral_score) ==
    LET new_metrics ==
            [CountVote(post.metrics, vote_type) EXCEPT !.viral_score = viral_score]
        reached == ThresholdCrossed(post, viral_score)
    IN  /\ post' = IF reached
                   THEN PostInDB("viral", new_metrics, now)
                   ELSE PostInDB(post.status, new_metrics, post.viral_at)
        /\ vote_response' = PostVoteResponse(new_metrics, VoteCost(vote_type), reached)
        /\ crossings' = IF /\ post.metrics.viral_score < viral_threshold
                           /\ viral_score >= viral_threshold
                        THEN crossings + 1 ELSE crossings
        /\ flags' = IF reached THEN flags + 1 ELSE flags
        /\ UNCHANGED now

(* ------------------------------ inputs -------------------------------- *)

\* the nonces a client may send: those issued so far, and one never issued
NonceValues == 0..generated

\* the messages a client may have signed: the challenges that request-nonce
\* returned, those since overwritten included
MessageInputs == {d.message : d \in auth_nonces \cup superseded}

\* the signatures a client holds from its earlier successful logins
ReplayInputs == {r.signature : r \in consumed}

SignatureInputs ==
    {Malformed} \cup ReplayInputs
        \cup {Sign(k, m) : k \in Addresses, m \in MessageInputs}

UserDataInputs ==
    {NoUserData} \cup {UserCreate(n, "d1") : n \in UsernameInputs}

(* --------------------------- specification ---------------------------- *)

AuthInit ==
    /\ now = 0
    /\ auth_nonces = {}
    /\ users = {SeedUser}
    /\ issued = <<>>
    /\ superseded = {}
    /\ consumed = {}
    /\ last = Response("none", NoWallet, "none", NoToken)
    /\ served = 0
    /\ generated = 0

\* the application is serving, with a store and a cache that answer
Serving ==
    /\ phase = "serving"
    /\ database = Handle
    /\ cache = Handle
    /\ store_up = TRUE
    /\ cache_up = TRUE
    /\ driver_bool = "true"
    /\ reply = NoReply

\* no post is voted on
NoContent ==
    /\ post = NoPost
    /\ vote_response = NoVoteResponse
    /\ crossings = 0
    /\ flags = 0

\* no request is in flight
NoCalls == calls = [i \in Slots |-> NoCall]

Init == AuthInit /\ Serving /\ NoContent /\ NoCalls

\* a request is received
Serve == served < MaxRequests /\ served' = served + 1

\* The handlers of auth.py, one request after the other, with the store
\* answering every call.
Next ==
    \/ Serve /\ UNCHANGED OutsideAuth
             /\ \E w \in WalletInputs : request_nonce(w)
    \/ Serve /\ UNCHANGED OutsideAuth
             /\ \E s \in SignatureInputs, w \in WalletInputs, n \in NonceValues,
                   data \in UserDataInputs :
                  verify_signature_and_login(SignatureRequest(w, s, n, data))
    \/ Serve /\ UNCHANGED OutsideAuth
             /\ \E token \in TokenInputs : refresh_token(token)
    \/ Serve /\ UNCHANGED OutsideAuth
             /\ \E token \in TokenInputs : get_current_user(token)
    \/ Serve /\ UNCHANGED OutsideAuth
             /\ \E token \in TokenInputs : logout(token)
    \/ Tick /\ UNCHANGED OutsideAuth

Spec == Init /\ [][Next]_vars

\* The same handlers under a second name: the claims about what a call of
\* verify-signature or refresh leaves in the stores are checked in runs of
\* their own.
EffectsSpec == Init /\ [][Next]_vars

\* The application from its start to its shutdown, with a store and a cache
\* that may stop answering at any time: the lifespan, the health endpoints
\* and the auth endpoints.  The requests arrive within one minute (the
\* passing of time is the subject of Spec).
ServiceInit ==
    /\ AuthInit
    /\ phase = "starting"
    /\ database = None
    /\ cache = None
    /\ store_up \in BOOLEAN
    /\ cache_up \in BOOLEAN
    /\ driver_bool \in {"true", "raises"}
    /\ reply = NoReply
    /\ NoContent
    /\ NoCalls

\* a request reaches the application while it serves
Call == phase = "serving" /\ Serve
             /\ UNCHANGED <<phase, database, cache, store_up, cache_up, driver_bool>>
             /\ UNCHANGED OutsideService

ServiceNext ==
    \/ lifespan_startup /\ UNCHANGED <<authvars, OutsideService>>
    \/ lifespan_shutdown /\ UNCHANGED <<authvars, OutsideService>>
    \/ StoreChange /\ UNCHANGED <<authvars, OutsideService>>
    \/ CacheChange /\ UNCHANGED <<authvars, OutsideService>>
    \/ Serve /\ health_check
             /\ UNCHANGED <<now, auth_nonces, users, issued, superseded, consumed,
                            last, generated, OutsideService>>
    \/ Serve /\ (\E raised \in {NoException, MemoryReadError} : detailed_health(raised))
             /\ UNCHANGED <<now, auth_nonces, users, issued, superseded, consumed,
                            last, generated, OutsideService>>
    \/ Call /\ \E w \in WalletInputs : post_request_nonce(w)
    \/ Call /\ \E s \in SignatureInputs, w \in WalletInputs, n \in NonceValues,
                  data \in UserDataInputs :
                 post_verify_signature(SignatureRequest(w, s, n, data))
    \/ Call /\ \E token \in TokenInputs : post_refresh(token)
    \/ Call /\ \E token \in TokenInputs : get_me(token)
    \/ Call /\ \E token \in TokenInputs : post_logout(token)

ServiceSpec == ServiceInit /\ [][ServiceNext]_vars

\* the scores a recomputation may give lie within MaxScoreStep of the threshold
ScoreInputs == (viral_threshold - MaxScoreStep)..(viral_threshold + MaxScoreStep)

\* A published or approved post just below the threshold, and the votes cast
\* on it.
ContentInit ==
    /\ AuthInit
    /\ Serving
    /\ \E status \in {"published", "approved"},
          viral_score \in {s \in ScoreInputs : s < viral_threshold} :
           post = PostInDB(status,
                      PostMetrics(viral_threshold - 1, 0, 0, viral_threshold - 1,
                                  viral_score),
                      NoTime)
    /\ vote_response = NoVoteResponse
    /\ crossings = 0
    /\ flags = 0
    /\ NoCalls

ContentNext ==
    \/ Serve /\ UNCHANGED OutsideContent
             /\ \E vote_type \in VoteTypes, viral_score \in ScoreInputs :
                  cast_vote(vote_type, viral_score)
    \/ Tick /\ UNCHANGED OutsideAuth

ContentSpec == ContentInit /\ [][ContentNext]_vars

\* the registered user after a login: the record holds a live refresh token
LoggedInUser ==
    [SeedUser EXCEPT !.last_login = 0,
                     !.refresh_token = create_refresh_token(SeedUser.wallet_address, 1)]

\* The verify-signature, refresh and logout requests as concurrent
\* coroutines over the store, next to request-nonce (a single store call),
\* starting after a login of the registered user.
ConcurrentInit ==
    /\ now = 0
    /\ auth_nonces = {}
    /\ users = {LoggedInUser}
    /\ issued = <<SeedUser.wallet_address>>
    /\ superseded = {}
    /\ consumed = {}
    /\ last = Response("none", NoWallet, "none", NoToken)
    /\ served = 0
    /\ generated = 0
    /\ Serving
    /\ NoContent
    /\ NoCalls

\* a step of a request in flight
Step == UNCHANGED <<served, OutsideCalls>>

ConcurrentNext ==
    \/ Serve /\ UNCHANGED <<OutsideCalls, calls>>
             /\ \E w \in WalletInputs : request_nonce(w)
    \/ Serve /\ UNCHANGED OutsideCalls
             /\ \E i \in Slots, s \in SignatureInputs, w \in WalletInputs,
                   n \in NonceValues, data \in UserDataInputs :
                  begin_verify(i, SignatureRequest(w, s, n, data))
    \/ Serve /\ UNCHANGED OutsideCalls
             /\ \E i \in Slots, token \in TokenInputs : begin_refresh(i, token)
    \/ Step /\ \E i \in Slots : verify_find_nonce(i)
    \/ Step /\ \E i \in Slots : verify_find_user(i)
    \/ Step /\ \E i \in Slots : verify_find_username(i)
    \/ Step /\ \E i \in Slots : verify_insert_user(i)
    \/ Step /\ \E i \in Slots : verify_find_inserted(i)
    \/ Step /\ \E i \in Slots : verify_update_last_login(i)
    \/ Step /\ \E i \in Slots : verify_delete_nonce(i)
    \/ Step /\ \E i \in Slots : verify_store_refresh_token(i)
    \/ Step /\ \E i \in Slots : refresh_find_user(i)
    \/ Step /\ \E i \in Slots : refresh_update(i)
    \/ Serve /\ UNCHANGED OutsideCalls
             /\ \E i \in Slots, token \in TokenInputs : begin_logout(i, token)
    \/ Step /\ \E i \in Slots : logout_find_user(i)
    \/ Step /\ \E i \in Slots : logout_update_last_login(i)
    \/ Step /\ \E i \in Slots : logout_unset(i)

ConcurrentSpec == ConcurrentInit /\ [][ConcurrentNext]_vars

(* ------------------------------ claims -------------------------------- *)

\* the nonce records of a wallet
NonceDocs(wallet_address) == {d \in auth_nonces : d.wallet_address = wallet_address}

\* C1: once a verify-signature for a wallet has succeeded, the wallet has no
\* nonce record, and the same nonce and signature presented again, with no
\* request-nonce for the wallet in between, get the nonce-not-found error,
\* change nothing and get no tokens.
C1_NonceSingleUse ==
    \A r \in consumed :
        /\ NonceDocs(r.wallet_address) = {}
        /\ \A w \in WalletInputs, data \in UserDataInputs :
               Lower(w) = r.wallet_address =>
                   LET replay == VerifyResult(
                                     SignatureRequest(w, r.signature, r.nonce, data))
                   IN  /\ replay.outcome = "nonce_not_found"
                       /\ replay.issued = issued
                       /\ replay.users = users

\* a verify-signature was refused with nonce-not-found for a wallet whose
\* nonce an earlier verify-signature had used up
C1_Witness ==
    /\ last.op = "verify_signature"
    /\ last.outcome = "nonce_not_found"
    /\ \E r \in consumed : r.wallet_address = last.wallet

\* C2: a nonce record written at time t expires at t + 5 minutes: every
\* verify-signature for its wallet after that time gets the nonce-expired
\* error whatever nonce and signature it carries, creates no user and gets
\* no tokens; up to and at that time no request gets the nonce-expired error.
C2_NonceExpiry ==
    \A d \in auth_nonces :
        /\ d.expires_at = d.created_at + NonceTTL
        /\ \A w \in WalletInputs :
               Lower(w) = d.wallet_address =>
                   \A s \in SignatureInputs, n \in NonceValues,
                      data \in UserDataInputs :
                       LET result == VerifyResult(SignatureRequest(w, s, n, data))
                       IN  IF now > d.created_at + NonceTTL
                           THEN /\ result.outcome = "nonce_expired"
                                /\ result.users = users
                                /\ result.issued = issued
                           ELSE result.outcome # "nonce_expired"

\* a verify-signature was refused with nonce-expired
C2_Witness ==
    /\ last.op = "verify_signature"
    /\ last.outcome = "nonce_expired"
    /\ \E d \in NonceDocs(last.wallet) : now > d.expires_at

\* the signature was made with the wallet's key over this very message
SignedBy(signature, wallet_address, message) ==
    /\ signature.wellformed
    /\ signature.signer = wallet_address.a
    /\ signature.msg = message

\* C3: verify-signature issues tokens for a wallet only when the signature
\* was made with the wallet's key over the message stored in the wallet's
\* nonce record; with a live record and a matching nonce, any other
\* signature (another key, another message, no signature at all) gets the
\* invalid-signature error.
C3_SignatureBinding ==
    \A w \in WalletInputs :
        LET wallet_address == Lower(w)
            docs == NonceDocs(wallet_address)
        IN  \A s \in SignatureInputs, n \in NonceValues, data \in UserDataInputs :
                LET result == VerifyResult(SignatureRequest(w, s, n, data))
                IN  /\ result.issued # issued =>
                           \E d \in docs : SignedBy(s, wallet_address, d.message)
                    /\ \A d \in docs :
                           (/\ now <= d.expires_at
                            /\ d.nonce = n
                            /\ ~SignedBy(s, wallet_address, d.message))
                           => /\ result.outcome = "invalid_signature"
                              /\ result.issued = issued

\* a verify-signature succeeded and returned the refresh token now stored
C3_Witness ==
    /\ last.op = "verify_signature"
    /\ last.outcome = "ok"
    /\ last.refresh_token = create_refresh_token(last.wallet, Len(issued))
    /\ \E u \in users : u.refresh_token = last.refresh_token

\* refresh takes the token: it stores a new refresh token in its place
RefreshAccepts(token) == RefreshOutcome(token) # "invalid_refresh_token"

\* C4: at most one refresh token per user is accepted by refresh, and it is
\* the one stored last: an accepted token is the user's stored token and the
\* newest token issued to that user, so every token issued to the user
\* before a later verify-signature or refresh is refused.
C4_RefreshRotation ==
    /\ \A w \in LowerWallets :
           Cardinality({t \in TokenInputs : t.sub = w /\ RefreshAccepts(t)}) <= 1
    /\ \A t \in TokenInputs :
           RefreshAccepts(t) =>
               /\ t \in IssuedTokens /\ t.typ = "refresh"
               /\ \E u \in users : u.wallet_address = t.sub /\ u.refresh_token = t
               /\ \A i \in 1..Len(issued) : issued[i] = t.sub => i <= t.id
    /\ \A t \in TokenInputs :
           ~RefreshAccepts(t) => RefreshOutcome(t) = "invalid_refresh_token"

\* a refresh succeeded, and the live refresh token it replaced is now refused
C4_Witness ==
    /\ last.op = "refresh"
    /\ last.outcome = "ok"
    /\ RefreshAccepts(last.refresh_token)
    /\ \E t \in IssuedTokens :
           /\ t.typ = "refresh" /\ t.sub = last.wallet /\ t.id < last.refresh_token.id
           /\ ~TokenLapsed(t)
           /\ RefreshOutcome(t) = "invalid_refresh_token"

\* the user of the wallet has a record, and it holds no refresh token
Revoked(coll, wallet_address) ==
    /\ \E u \in coll : u.wallet_address = wallet_address
    /\ \A u \in coll : u.wallet_address = wallet_address => u.refresh_token = NoToken

\* C5: a logout that completes leaves the user's record without a refresh
\* token; while the record holds none, refresh refuses every token of that
\* user with the invalid-refresh-token error; and only a verify-signature of
\* the user's wallet that passes its checks stores a token again.
C5_LogoutRevokes ==
    [][/\ (last'.op = "logout" /\ last'.outcome = "ok" /\ served' # served)
              => Revoked(users', last'.wallet)
       /\ \A w \in LowerWallets :
              /\ Revoked(users, w) =>
                     \A t \in TokenInputs :
                         t.sub = w => /\ RefreshOutcome(t) = "invalid_refresh_token"
                                      /\ RefreshUsers(t) = users
              /\ (Revoked(users, w) /\ ~Revoked(users', w)) =>
                     /\ last'.op = "verify_signature"
                     /\ last'.wallet = w
                     /\ last'.outcome \in {"ok", "internal_error"}
                     /\ served' # served
      ]_vars

\* a logout completed for a user who holds a live refresh token, now refused
C5_Witness ==
    /\ last.op = "logout"
    /\ last.outcome = "ok"
    /\ \E t \in IssuedTokens :
           /\ t.typ = "refresh" /\ t.sub = last.wallet /\ ~TokenLapsed(t)
           /\ RefreshOutcome(t) = "invalid_refresh_token"

\* C6: current-user resolution answers 401 (unauthenticated), never 500,
\* when the token fails verification, is expired, has no subject, or names
\* a wallet without a user record.
C6_Unauthenticated ==
    last.op = "get_current_user" => last.outcome \in {"ok", "unauthenticated"}

\* current-user resolution answered 500 for a live, validly signed access
\* token whose wallet has no user record
C6_Witness ==
    /\ last.op = "get_current_user"
    /\ last.outcome = "internal_error"
    /\ \E t \in TokenInputs :
           /\ t.sub = last.wallet
           /\ t.sub \in LowerWallets
           /\ verify_token(t, "access").valid
           /\ FindUser(t.sub) = NoUser
           /\ CurrentUserOutcome(t) = "internal_error"

\* the signature check of a request passes against a live nonce record
Verified(request) ==
    \E d \in NonceDocs(Lower(request.wallet_address)) :
        /\ now <= d.expires_at
        /\ d.nonce = request.nonce
        /\ SignedBy(request.signature, Lower(request.wallet_address), d.message)

\* C7: verify-signature inserts a user record only when the signature
\* verified, the wallet has no user, registration data came with the request
\* and no user has the lower-cased username; without registration data the
\* answer is missing-registration-data, with a taken username it is the
\* conflict error, and in both cases users, nonces and tokens are unchanged.
C7_Registration ==
    \A w \in WalletInputs :
        LET wallet_address == Lower(w)
            known == \E u \in users : u.wallet_address = wallet_address
            ids == {u._id : u \in users}
        IN  \A s \in SignatureInputs, n \in NonceValues, data \in UserDataInputs :
                LET request == SignatureRequest(w, s, n, data)
                    username == Lower(data.username)
                    taken == \E u \in users : u.username = username
                    result == VerifyResult(request)
                    unchanged == /\ result.users = users
                                 /\ result.auth_nonces = auth_nonces
                                 /\ result.issued = issued
                    inserted == {u \in result.users : u._id \notin ids}
                    verified == Verified(request)
                IN  /\ ids \subseteq {u._id : u \in result.users}
                    /\ inserted # {} =>
                           /\ verified /\ ~known
                           /\ data.present /\ ~taken
                           /\ Cardinality(inserted) = 1
                           /\ \A u \in inserted :
                                  /\ u.wallet_address = wallet_address
                                  /\ u.username = username
                    /\ (verified /\ ~known /\ ~data.present)
                           => /\ result.outcome = "missing_registration_data"
                              /\ unchanged
                    /\ (verified /\ ~known /\ data.present /\ taken)
                           => /\ result.outcome = "username_taken"
                              /\ unchanged

\* a registration was refused because the username belongs to another user
C7_Witness ==
    /\ last.op = "verify_signature"
    /\ last.outcome = "username_taken"
    /\ \A u \in users : u.wallet_address # last.wallet
    /\ NonceDocs(last.wallet) # {}

\* C8: verify-signature reports the first failing check in the order record
\* found, not expired, nonce equal, signature valid.
C8_CheckOrder ==
    \A w \in WalletInputs :
        LET wallet_address == Lower(w)
            docs == NonceDocs(wallet_address)
        IN  \A s \in SignatureInputs, n \in NonceValues, data \in UserDataInputs :
                LET outcome == VerifyResult(SignatureRequest(w, s, n, data)).outcome
                IN  /\ docs = {} => outcome = "nonce_not_found"
                    /\ \A d \in docs :
                           /\ now > d.expires_at => outcome = "nonce_expired"
                           /\ (now <= d.expires_at /\ d.nonce # n)
                                  => outcome = "nonce_mismatch"
                           /\ (/\ now <= d.expires_at /\ d.nonce = n
                               /\ ~SignedBy(s, wallet_address, d.message))
                                  => outcome = "invalid_signature"
                           /\ outcome # "nonce_not_found"

\* a verify-signature made at the very expiry time of the record was
\* refused with nonce-mismatch, not with nonce-expired
C8_Witness ==
    /\ last.op = "verify_signature"
    /\ last.outcome = "nonce_mismatch"
    /\ \E d \in NonceDocs(last.wallet) : now = d.expires_at

\* C9: the nonce store holds at most one record per wallet, keyed by the
\* lower-cased address; a request-nonce for a wallet with a record replaces
\* its nonce, message and expiry together, after which a verify-signature
\* with the replaced nonce gets nonce-mismatch, a signature over the replaced
\* message is invalid, and the new nonce with a signature over the new
\* message passes the nonce checks.
C9_OneNoncePerWallet ==
    /\ \A w \in LowerWallets : Cardinality(NonceDocs(w)) <= 1
    /\ \A d \in auth_nonces :
           /\ d.wallet_address \in LowerWallets
           /\ d.message = create_auth_message(d.wallet_address, d.nonce, d.created_at)
           /\ d.expires_at = d.created_at + NonceTTL
    /\ \A old \in superseded :
           /\ old \notin auth_nonces
           /\ \A s \in SignatureInputs, d \in NonceDocs(old.wallet_address),
                 data \in UserDataInputs :
                  (now <= d.expires_at) =>
                      /\ VerifyResult(SignatureRequest(d.wallet_address, s,
                             old.nonce, data)).outcome = "nonce_mismatch"
                      /\ VerifyResult(SignatureRequest(d.wallet_address,
                             Sign(d.wallet_address.a, d.message),
                             d.nonce, data)).outcome
                            \notin {"nonce_not_found", "nonce_expired",
                                    "nonce_mismatch", "invalid_signature"}
                      /\ VerifyResult(SignatureRequest(d.wallet_address,
                             Sign(d.wallet_address.a, old.message),
                             d.nonce, data)).outcome = "invalid_signature"

\* a verify-signature was refused with nonce-mismatch for a wallet whose
\* earlier nonce a second request-nonce had replaced by another one
C9_Witness ==
    /\ last.op = "verify_signature"
    /\ last.outcome = "nonce_mismatch"
    /\ \E old \in superseded, d \in auth_nonces :
           /\ old.wallet_address = last.wallet
           /\ d.wallet_address = last.wallet
           /\ old.nonce # d.nonce

\* the token passes the verification that refresh asks for
ValidRefreshToken(token) ==
    token.signed /\ ~TokenLapsed(token) /\ token.typ = "refresh"

\* C10: refresh answers invalid-refresh-token when the token fails
\* verification (bad signature, expired, not a refresh token) or is not the
\* token stored for the wallet it names; the stored tokens are then left as
\* they are and no token is issued.
C10_RefreshRefusal ==
    \A t \in TokenInputs :
        (\/ ~ValidRefreshToken(t)
         \/ ~\E u \in users : u.wallet_address = t.sub /\ u.refresh_token = t)
        => /\ RefreshOutcome(t) = "invalid_refresh_token"
           /\ RefreshUsers(t) = users
           /\ RefreshIssued(t) = issued

\* a refresh was refused for a user whose record holds a refresh token
C10_Witness ==
    /\ last.op = "refresh"
    /\ last.outcome = "invalid_refresh_token"
    /\ \E u \in users : u.wallet_address = last.wallet /\ u.refresh_token # NoToken

(* ----------------------- claims: error handling ----------------------- *)

\* C11: when an unexpected exception arises inside a handler (request-nonce,
\* verify-signature, refresh, logout, current-user resolution, the health
\* endpoints), the response is an internal error (5xx) whose body holds a
\* fixed message and never the text of the exception.
C11_GenericInternalError ==
    reply.raised # NoText =>
        /\ reply.code >= 500
        /\ reply.body.detail = InternalDetail(reply.endpoint)
        /\ reply.body.error = NoText

\* the detailed health endpoint answered 200 with the text of the exception
\* that psutil raised in its body
C11_Witness ==
    /\ reply.endpoint = "health_detailed"
    /\ reply.raised = MemoryReadError.text
    /\ reply.code = 200
    /\ reply.body.status = "partial"
    /\ reply.body.error = reply.raised

\* C12: when the store or the cache does not answer during startup, startup
\* still completes and the application serves with both globals None; every
\* health response then reports "not_configured" for the store and for the
\* cache, also once they answer again; and the shutdown ends in the stopped
\* state without raising.
C12_DegradedStartup ==
    [][/\ (phase = "starting" /\ phase' # "starting") =>
              /\ phase' = "serving"
              /\ (~store_up \/ ~cache_up) => (database' = None /\ cache' = None)
       /\ (/\ served' # served
           /\ reply'.endpoint \in {"health", "health_detailed"}
           /\ reply'.raised = NoText
           /\ database = None) =>
              /\ cache = None
              /\ reply'.code = 200
              /\ reply'.body.database = "not_configured"
              /\ reply'.body.cache = "not_configured"
       /\ (phase = "serving" /\ phase' # "serving") => phase' = "stopped"
       /\ phase' # "crashed"
      ]_vars

\* the application was shut down after a startup that failed, having
\* answered a health check with "not_configured" for store and cache
C12_Witness ==
    /\ phase = "stopped"
    /\ database = None
    /\ cache = None
    /\ reply.endpoint = "health"
    /\ reply.body.database = "not_configured"
    /\ reply.body.cache = "not_configured"

(* ------------------------- claims: vote casting ----------------------- *)

\* C13: the vote that first takes the viral score of a post from below the
\* threshold to the threshold or above sets the status to viral, sets the
\* viral timestamp and returns viral_threshold_reached = true; no other vote
\* returns the flag, so it is returned at most once per post; and no vote
\* takes the status away from viral.
C13_ViralOnce ==
    [][served' # served =>
          LET crossing == /\ post.metrics.viral_score < viral_threshold
                          /\ post'.metrics.viral_score >= viral_threshold
              first == crossing /\ crossings = 0
          IN  /\ first => /\ post.status # "viral"
                          /\ post'.status = "viral"
                          /\ post'.viral_at = now
                          /\ vote_response'.viral_threshold_reached
              /\ vote_response'.viral_threshold_reached <=> first
              /\ flags' <= 1
              /\ flags' = IF crossings' > 0 THEN 1 ELSE 0
              /\ post.status = "viral" =>
                     /\ post'.status = "viral"
                     /\ post'.viral_at = post.viral_at
      ]_vars

\* the score of a viral post crossed the threshold a second time, and the
\* vote that did it returned no flag
C13_Witness ==
    /\ crossings = 2
    /\ flags = 1
    /\ post.status = "viral"
    /\ post.viral_at # NoTime
    /\ post.metrics.viral_score >= viral_threshold
    /\ vote_response.success
    /\ ~vote_response.viral_threshold_reached

\* C14: after any sequence of votes, total_votes of the post is the sum of
\* its up, down and viral votes, in the stored metrics and in the metrics
\* that the vote returned.
C14_TotalVotes ==
    /\ post.metrics.total_votes
           = post.metrics.up_votes + post.metrics.down_votes + post.metrics.viral_votes
    /\ vote_response.new_metrics.total_votes
           = vote_response.new_metrics.up_votes
                 + vote_response.new_metrics.down_votes
                 + vote_response.new_metrics.viral_votes

\* votes of all three types were cast on the post
C14_Witness ==
    /\ vote_response.success
    /\ post.metrics.up_votes >= viral_threshold
    /\ post.metrics.down_votes > 0
    /\ post.metrics.viral_votes > 0
    /\ post.metrics.total_votes = viral_threshold + 2

(* ------------------- claims: effects of verify-signature -------------- *)

\* C16 as stated: the nonce record is deleted by every verify-signature call
\* in which the nonce matched and the signature verified, the calls that end
\* with missing-registration-data or username-taken included, and by no call
\* that fails the expiry, nonce or signature check.
C16_DeletedOnceVerified ==
    \A w \in WalletInputs :
        LET wallet_address == Lower(w)
            docs == NonceDocs(wallet_address)
        IN  \A s \in SignatureInputs, n \in NonceValues, data \in UserDataInputs :
                LET request == SignatureRequest(w, s, n, data)
                    result == VerifyResult(request)
                IN  IF Verified(request)
                    THEN result.auth_nonces = auth_nonces \ docs
                    ELSE result.auth_nonces = auth_nonces

\* C16 (amended): the nonce record is deleted by every verify-signature call
\* in which the nonce matched, the signature verified and the registration
\* checks passed (the wallet has a user, or registration data with a free
\* username came with the request); it is deleted by no other call: not by
\* one that fails the expiry, nonce or signature check, and not by one that
\* ends with missing-registration-data or username-taken.
C16_NonceConsumed ==
    \A w \in WalletInputs :
        LET wallet_address == Lower(w)
            docs == NonceDocs(wallet_address)
            known == \E u \in users : u.wallet_address = wallet_address
        IN  \A s \in SignatureInputs, n \in NonceValues :
                LET verified == Verified(SignatureRequest(w, s, n, NoUserData))
                IN  \A data \in UserDataInputs :
                        LET result == VerifyResult(SignatureRequest(w, s, n, data))
                            taken == \E u \in users : u.username = Lower(data.username)
                        IN  /\ IF verified /\ (known \/ (data.present /\ ~taken))
                               THEN result.auth_nonces = auth_nonces \ docs
                               ELSE result.auth_nonces = auth_nonces
                            /\ result.outcome \in {"missing_registration_data",
                                                    "username_taken"}
                                   => /\ verified
                                      /\ docs # {}
                                      /\ docs \subseteq result.auth_nonces

\* a verify-signature with a verified signature ended with
\* missing-registration-data, and the live nonce record is still there
C16_Witness ==
    /\ last.op = "verify_signature"
    /\ last.outcome = "missing_registration_data"
    /\ \E d \in NonceDocs(last.wallet) : now <= d.expires_at

\* C17: a verify-signature that passes its checks for a wallet that has a
\* user record inserts no record, gives the same result whatever
\* registration data came with it, and changes of the existing record only
\* last_login and the stored refresh token; the other records are untouched.
C17_ExistingUserFrame ==
    \A w \in WalletInputs :
        LET wallet_address == Lower(w)
            known == {u \in users : u.wallet_address = wallet_address}
        IN  known # {} =>
                \A s \in SignatureInputs, n \in NonceValues :
                    LET result == VerifyResult(SignatureRequest(w, s, n, NoUserData))
                    IN  /\ \A data \in UserDataInputs :
                               VerifyResult(SignatureRequest(w, s, n, data)) = result
                        /\ result.outcome \in {"ok", "internal_error"} =>
                               /\ Cardinality(result.users) = Cardinality(users)
                               /\ users \ known \subseteq result.users
                               /\ \A u \in known :
                                      [u EXCEPT
                                          !.last_login = now,
                                          !.refresh_token =
                                              create_refresh_token(wallet_address,
                                                  Len(result.issued))]
                                          \in result.users

\* the registered user logged in again at a later time: the record has the
\* new last-login time and refresh token, and the profile it had
C17_Witness ==
    /\ last.op = "verify_signature"
    /\ last.outcome = "ok"
    /\ last.wallet = SeedUser.wallet_address
    /\ now > 0
    /\ [SeedUser EXCEPT !.last_login = now, !.refresh_token = last.refresh_token]
           \in users
    /\ Cardinality(users) = 1

\* C18: a verify-signature or refresh call that answers with an error (4xx
\* or 5xx) has changed nothing in the user store, the nonce store or the
\* stored refresh tokens.
C18_ErrorsChangeNothing ==
    /\ \A w \in WalletInputs, s \in SignatureInputs, n \in NonceValues,
          data \in UserDataInputs :
           LET result == VerifyResult(SignatureRequest(w, s, n, data))
           IN  result.outcome # "ok" =>
                   /\ result.users = users
                   /\ result.auth_nonces = auth_nonces
    /\ \A t \in TokenInputs :
           RefreshOutcome(t) # "ok" => RefreshUsers(t) = users

\* a registration was answered with 500 after the user was inserted, the
\* refresh token stored and the nonce deleted
C18_Witness ==
    /\ last.op = "verify_signature"
    /\ last.outcome = "internal_error"
    /\ NonceDocs(last.wallet) = {}
    /\ \E u \in users :
           /\ u.wallet_address = last.wallet
           /\ u._id # SeedUser._id
           /\ u.refresh_token = create_refresh_token(last.wallet, Len(issued))

(* --------------------- claims: concurrent requests -------------------- *)

\* C15: under every interleaving of concurrent verify-signature requests
\* the user store holds at most one record per wallet address and at most
\* one per username, and every stored wallet address and username is
\* lower-case.
C15_UniqueUsers ==
    /\ \A u1 \in users, u2 \in users :
           (u1.wallet_address = u2.wallet_address \/ u1.username = u2.username)
               => u1 = u2
    /\ \A u \in users : ~u.wallet_address.up /\ ~u.username.up

\* two registrations of one wallet ran side by side and each inserted a
\* record
C15_Witness ==
    /\ \A i \in Slots : calls[i].op = "verify_signature" /\ calls[i].pc = "done"
    /\ \E u1 \in users, u2 \in users :
           /\ u1._id # u2._id
           /\ u1.wallet_address = u2.wallet_address
           /\ \E i \in Slots : calls[i].user._id = u1._id
           /\ \E i \in Slots : calls[i].user._id = u2._id

\* the two requests are verify-signature requests for the same wallet with
\* the same nonce and the same signature
SameLogin(i, j) ==
    /\ i # j
    /\ calls[i].op = "verify_signature"
    /\ calls[j].op = "verify_signature"
    /\ Lower(calls[i].request.wallet_address) = Lower(calls[j].request.wallet_address)
    /\ calls[i].request.nonce = calls[j].request.nonce
    /\ calls[i].request.signature = calls[j].request.signature

\* C19: of two concurrent verify-signature requests for the same wallet
\* with the same nonce and the same valid signature, at most one succeeds
\* and returns tokens.
C19_OneLoginPerNonce ==
    \A i \in Slots, j \in Slots :
        SameLogin(i, j) => ~(calls[i].outcome = "ok" /\ calls[j].outcome = "ok")

\* both requests returned tokens for the one nonce
C19_Witness ==
    \E i \in Slots, j \in Slots :
        /\ SameLogin(i, j)
        /\ calls[i].outcome = "ok" /\ calls[j].outcome = "ok"
        /\ calls[i].refresh_token # calls[j].refresh_token
        /\ calls[i].nonce_doc = calls[j].nonce_doc
        /\ generated = 1

\* the two requests are refresh requests with the same token
SameRefresh(i, j) ==
    /\ i # j
    /\ calls[i].op = "refresh"
    /\ calls[j].op = "refresh"
    /\ calls[i].token = calls[j].token

\* C20: of two concurrent refresh requests with the same stored refresh
\* token at most one succeeds, and once both have been answered the user
\* holds the token returned to the one that succeeded.
C20_OneRefreshPerToken ==
    \A i \in Slots, j \in Slots :
        SameRefresh(i, j) =>
            /\ ~(calls[i].outcome = "ok" /\ calls[j].outcome = "ok")
            /\ (/\ calls[i].outcome = "ok"
                /\ calls[j].pc = "done"
                /\ calls[i].refresh_token.id = Len(issued))
               => \E u \in users : u.refresh_token = calls[i].refresh_token

\* both refresh requests succeeded with the one token, and the user holds
\* the token of the request that read the store first
C20_Witness ==
    \E i \in Slots, j \in Slots :
        /\ SameRefresh(i, j)
        /\ calls[i].outcome = "ok" /\ calls[j].outcome = "ok"
        /\ calls[i].refresh_token.id < calls[j].refresh_token.id
        /\ \E u \in users : u.refresh_token = calls[i].refresh_token


\* the verify-signature request i performs its clean-up step (auth.py 261)
CleansUp(i) ==
    /\ calls[i].op = "verify_signature"
    /\ calls[i].pc = "delete_nonce"
    /\ calls'[i].pc = "store_refresh_token"

\* C21: a verify-signature request deletes only the nonce record it
\* verified: a nonce record that a request-nonce for the same wallet stored
\* between the request's lookup and its clean-up step is still in the store
\* after the clean-up.
C21_DeletesOnlyVerified ==
    [][\A i \in Slots :
           CleansUp(i) =>
               \A d \in auth_nonces : d # calls[i].nonce_doc => d \in auth_nonces']_vars

\* a verify-signature request succeeded with a nonce that a request-nonce
\* replaced after the lookup, and the wallet has no nonce record left
C21_Witness ==
    \E i \in Slots :
        /\ calls[i].op = "verify_signature"
        /\ calls[i].outcome = "ok"
        /\ calls[i].nonce_doc \in superseded
        /\ FindNonce(Lower(calls[i].request.wallet_address)) = NoNonceDoc
        /\ generated = 2


\* the refresh request j performs its last store call (auth.py 323-326)
StoresToken(j) ==
    /\ calls[j].op = "refresh"
    /\ calls[j].pc = "update_refresh_token"
    /\ calls'[j].pc = "done"

\* the logout request i has completed and the record of its user holds no
\* refresh token
LoggedOut(i, coll) ==
    /\ calls[i].op = "logout"
    /\ calls[i].outcome = "ok"
    /\ \A u \in coll : u._id = calls[i].user._id => u.refresh_token = NoToken

\* C22: a refresh that read the user record before a concurrent logout of
\* the same user cleared the token leaves no refresh token stored after the
\* logout has completed: when the refresh completes, the record that the
\* logout left without a token is still without one.
C22_LogoutOutlastsRefresh ==
    [][\A i \in Slots, j \in Slots :
           (/\ StoresToken(j)
            /\ LoggedOut(i, users)
            /\ calls[i].user._id = calls[j].user._id)
               => LoggedOut(i, users')]_vars

\* a logout and a refresh of the same user have both completed, the refresh
\* read the token that the logout cleared, and the record holds the token
\* that the refresh returned, which a later refresh will accept
C22_Witness ==
    \E i \in Slots, j \in Slots :
        /\ calls[i].op = "logout" /\ calls[i].outcome = "ok"
        /\ calls[j].op = "refresh" /\ calls[j].outcome = "ok"
        /\ calls[i].user._id = calls[j].user._id
        /\ calls[j].user.refresh_token = calls[i].user.refresh_token
        /\ calls[j].refresh_token # NoToken
        /\ RefreshUser(calls[j].refresh_token) # NoUser
        /\ verify_token(calls[j].refresh_token, "refresh").valid

====
